---- MODULE Spec2Model ----
(***************************************************************************)
(* Model of src/src/simulation/model.ts (createSimulationFromRow and the   *)
(* SimulationState it returns) together with the render loop of            *)
(* src/src/simulation/scene.ts that drives it.                             *)
(*                                                                         *)
(* JavaScript numbers are IEEE-754 doubles.  They are modelled as decimal  *)
(* floating-point numbers  m * 10^e  with a significand of Precision       *)
(* digits, round-to-nearest-even after every operation, gradual underflow  *)
(* to 0 below 10^EMin, overflow to Infinity above 10^(EMax+Precision), and *)
(* the special values Infinity, -Infinity and NaN.  The exponent range is  *)
(* the one of a double (about 5e-324 .. 1.8e308); only the significand is  *)
(* shorter (4 decimal digits for 53 bits).  Negative zero is identified    *)
(* with zero.                                                              *)
(***************************************************************************)
EXTENDS Integers, Sequences, FiniteSets, TLC

(***************************************************************************)
(* The number type.                                                        *)
(***************************************************************************)
Precision == 4
EMin == -323
EMax == 305

P10(k) == <<1, 10, 100, 1000, 10000, 100000, 1000000, 10000000, 100000000, 1000000000>>[k + 1]

Abs(n) == IF n < 0 THEN -n ELSE n
Sgn(n) == IF n < 0 THEN -1 ELSE IF n > 0 THEN 1 ELSE 0
MaxInt(a, b) == IF a >= b THEN a ELSE b
MinInt(a, b) == IF a <= b THEN a ELSE b

\* Number of decimal digits of n >= 0 (0 has none).
Digits(n) ==
  IF n = 0 THEN 0
  ELSE IF n < 10 THEN 1 ELSE IF n < 100 THEN 2 ELSE IF n < 1000 THEN 3
  ELSE IF n < 10000 THEN 4 ELSE IF n < 100000 THEN 5 ELSE IF n < 1000000 THEN 6
  ELSE IF n < 10000000 THEN 7 ELSE IF n < 100000000 THEN 8
  ELSE IF n < 1000000000 THEN 9 ELSE 10

Fin(m, e) == [k |-> "fin", m |-> m, e |-> e]
Zero == Fin(0, 0)
Inf(s) == [k |-> "inf", m |-> s, e |-> 0]
NaN == [k |-> "nan", m |-> 0, e |-> 0]

IsNaN(a) == a.k = "nan"
IsInf(a) == a.k = "inf"
IsFiniteNum(a) == a.k = "fin"
IsZero(a) == a.k = "fin" /\ a.m = 0
SignOf(a) == Sgn(a.m)

\* q + 1 if the dropped digits r (of 10^s) round q up: to nearest, ties to even;
\* sticky says that non-zero digits were already lost below them.
RoundUp(q, r, half, sticky) ==
  IF r > half \/ (r = half /\ (sticky \/ q % 2 = 1)) THEN q + 1 ELSE q

\* mag with its last s digits dropped, rounded.
RoundShift(mag, s, sticky) ==
  IF s = 0 THEN mag
  ELSE IF s >= 10 THEN 0
  ELSE RoundUp(mag \div P10(s), mag % P10(s), 5 * P10(s - 1), sticky)

\* sgn * q * 10^e, or Infinity when e is beyond the format.
NormPack(sgn, q, e) == IF e > EMax THEN Inf(sgn) ELSE Fin(sgn * q, e)

\* q has at most Precision digits: make it a full significand unless subnormal.
NormScale(sgn, q, e, up) == NormPack(sgn, q * P10(up), e - up)

NormCarry(sgn, q, e) ==
  IF q = 0 THEN Zero
  ELSE IF q = P10(Precision) THEN NormPack(sgn, P10(Precision - 1), e + 1)
  ELSE NormScale(sgn, q, e, MaxInt(0, MinInt(Precision - Digits(q), e - EMin)))

NormDrop(sgn, mag, e, sticky, s) == NormCarry(sgn, RoundShift(mag, s, sticky), e + s)

\* The number nearest to sgn * mag * 10^e that the format holds.
Norm(sgn, mag, e, sticky) ==
  IF mag = 0 \/ sgn = 0 THEN Zero
  ELSE NormDrop(sgn, mag, e, sticky,
                MaxInt(0, MaxInt(Digits(mag) - Precision, EMin - e)))

\* The literal n * 10^e.
Dec(n, e) == Norm(Sgn(n), Abs(n), e, FALSE)

FNeg(a) == IF IsNaN(a) THEN NaN ELSE [a EXCEPT !.m = -a.m]

\* a < b on magnitudes of finite non-zero numbers.
MagLt(a, b) == a.e < b.e \/ (a.e = b.e /\ Abs(a.m) < Abs(b.m))

\* The relational operators of the language: every comparison with NaN is false.
FLt(a, b) ==
  IF IsNaN(a) \/ IsNaN(b) THEN FALSE
  ELSE IF IsInf(a) THEN a.m < 0 /\ ~(IsInf(b) /\ b.m < 0)
  ELSE IF IsInf(b) THEN b.m > 0
  ELSE IF SignOf(a) # SignOf(b) THEN SignOf(a) < SignOf(b)
  ELSE IF SignOf(a) = 0 THEN FALSE
  ELSE IF SignOf(a) > 0 THEN MagLt(a, b) ELSE MagLt(b, a)

FLe(a, b) == ~IsNaN(a) /\ ~IsNaN(b) /\ (a = b \/ FLt(a, b))
FGt(a, b) == FLt(b, a)
FGe(a, b) == FLe(b, a)

\* hi + lo for finite non-zero numbers with hi.e >= lo.e.
AddSum(sum, e) == Norm(Sgn(sum), Abs(sum), e, FALSE)
AddAligned(hi, lo) ==
  IF hi.e - lo.e > Precision + 1 THEN hi
  ELSE AddSum(hi.m * P10(hi.e - lo.e) + lo.m, lo.e)

\* a + b
FAdd(a, b) ==
  IF IsNaN(a) \/ IsNaN(b) THEN NaN
  ELSE IF IsInf(a) THEN (IF IsInf(b) /\ b.m # a.m THEN NaN ELSE a)
  ELSE IF IsInf(b) THEN b
  ELSE IF IsZero(a) THEN b
  ELSE IF IsZero(b) THEN a
  ELSE IF a.e >= b.e THEN AddAligned(a, b) ELSE AddAligned(b, a)

FSub(a, b) == FAdd(a, FNeg(b))

\* a * b
FMul(a, b) ==
  IF IsNaN(a) \/ IsNaN(b) THEN NaN
  ELSE IF IsInf(a) \/ IsInf(b)
    THEN (IF IsZero(a) \/ IsZero(b) THEN NaN ELSE Inf(SignOf(a) * SignOf(b)))
  ELSE IF IsZero(a) \/ IsZero(b) THEN Zero
  ELSE Norm(SignOf(a) * SignOf(b), Abs(a.m) * Abs(b.m), a.e + b.e, FALSE)

\* (ma * 10^sh) / mb for finite non-zero numbers.
DivScaled(sgn, ma, mb, e, sh) ==
  Norm(sgn, (ma * P10(sh)) \div mb, e - sh, (ma * P10(sh)) % mb # 0)

\* a / b
FDiv(a, b) ==
  IF IsNaN(a) \/ IsNaN(b) THEN NaN
  ELSE IF IsInf(a) THEN (IF IsInf(b) THEN NaN
                         ELSE Inf(a.m * (IF SignOf(b) < 0 THEN -1 ELSE 1)))
  ELSE IF IsInf(b) THEN Zero
  ELSE IF IsZero(b) THEN (IF IsZero(a) THEN NaN ELSE Inf(SignOf(a)))
  ELSE IF IsZero(a) THEN Zero
  ELSE DivScaled(SignOf(a) * SignOf(b), Abs(a.m), Abs(b.m), a.e - b.e,
                 9 - Digits(Abs(a.m)))

\* Math.min and Math.max: NaN if either argument is NaN.
FMin(a, b) == IF IsNaN(a) \/ IsNaN(b) THEN NaN ELSE IF FLt(b, a) THEN b ELSE a
FMax(a, b) == IF IsNaN(a) \/ IsNaN(b) THEN NaN ELSE IF FLt(a, b) THEN b ELSE a

\* floor(sqrt(n)) by bisection, lo*lo <= n < hi*hi.
RECURSIVE ISqrtBetween(_, _, _)
ISqrtBetween(n, lo, hi) ==
  IF hi - lo <= 1 THEN lo
  ELSE IF ((lo + hi) \div 2) * ((lo + hi) \div 2) <= n
    THEN ISqrtBetween(n, (lo + hi) \div 2, hi)
    ELSE ISqrtBetween(n, lo, (lo + hi) \div 2)

ISqrt(n) == ISqrtBetween(n, 0, 31623)

\* sqrt(rad) * 10^ex, r = floor(sqrt(rad)).
SqrtRounded(rad, r, ex) ==
  IF Digits(r) > Precision THEN Norm(1, r, ex, r * r # rad)
  ELSE Norm(1, IF rad > r * r + r THEN r + 1 ELSE r, ex, FALSE)

\* sqrt(m * 10^e) with the significand scaled by 10^sh, e - sh even.
SqrtScaled(m, e, sh) == SqrtRounded(m * P10(sh), ISqrt(m * P10(sh)), (e - sh) \div 2)

\* Math.sqrt
FSqrt(a) ==
  IF IsNaN(a) THEN NaN
  ELSE IF IsInf(a) THEN (IF a.m > 0 THEN a ELSE NaN)
  ELSE IF IsZero(a) THEN Zero
  ELSE IF a.m < 0 THEN NaN
  ELSE SqrtScaled(a.m, a.e,
                  IF (a.e - (8 - Digits(a.m))) % 2 = 0 THEN 8 - Digits(a.m)
                  ELSE 9 - Digits(a.m))

\* Fixed-point helpers of the transcendental functions: integers in units of 10^-4.
FixOne == 10000
LN10_FIX == 23026
HALF_PI_FIX == 15708
PI_FIX == 31416
TWO_PI_FIX == 62832

\* e^y for 0 <= y < ln 10, by its power series.
RECURSIVE ExpTerms(_, _, _)
ExpTerms(y, term, k) ==
  IF term = 0 \/ k > 24 THEN 0
  ELSE term + ExpTerms(y, (term * y) \div (k * FixOne), k + 1)

ExpFix(y) == ExpTerms(y, FixOne, 1)

\* 10^(n + fr / 10^4)
Pow10Parts(n, fr) == Norm(1, ExpFix((fr * LN10_FIX) \div FixOne), n - 4, FALSE)

\* 10^(m / den), den a power of ten
Pow10Ratio(m, den) ==
  Pow10Parts(m \div den,
             IF den <= FixOne THEN ((m % den) * FixOne) \div den
             ELSE (m % den) \div (den \div FixOne))

\* Math.pow(10, x)
Pow10(x) ==
  IF IsNaN(x) THEN NaN
  ELSE IF IsInf(x) THEN (IF x.m > 0 THEN x ELSE Zero)
  ELSE IF IsZero(x) \/ x.e < -9 THEN Fin(P10(Precision - 1), 1 - Precision)
  ELSE IF x.e >= 0
    THEN (IF Digits(Abs(x.m)) + x.e > 4
            THEN (IF x.m > 0 THEN Inf(1) ELSE Zero)
            ELSE Norm(1, 1, x.m * P10(x.e), FALSE))
  ELSE Pow10Ratio(x.m, P10(-x.e))

\* cos and sin of u in [0, pi/4], by their power series; u2 = u^2, u4 = u^4.
CosSeries(u2, u4) == FixOne - u2 \div 2 + u4 \div 24 - ((u4 * u2) \div FixOne) \div 720
CosT(u) == CosSeries((u * u) \div FixOne, (((u * u) \div FixOne) * ((u * u) \div FixOne)) \div FixOne)

SinSeries(u, u2, u3) ==
  u - u3 \div 6 + ((u3 * u2) \div FixOne) \div 120
    - ((((u3 * u2) \div FixOne) * u2) \div FixOne) \div 5040
SinT(u) == SinSeries(u, (u * u) \div FixOne, (((u * u) \div FixOne) * u) \div FixOne)

\* cos of u in [0, pi/2]
CosQ(u) == IF 2 * u <= HALF_PI_FIX THEN CosT(u) ELSE SinT(HALF_PI_FIX - u)

\* cos of xr in [0, 2 pi): fold into the first quadrant
CosFold(xr) ==
  IF xr <= HALF_PI_FIX THEN [s |-> 1, u |-> xr]
  ELSE IF xr <= PI_FIX THEN [s |-> -1, u |-> PI_FIX - xr]
  ELSE IF xr <= PI_FIX + HALF_PI_FIX THEN [s |-> -1, u |-> xr - PI_FIX]
  ELSE [s |-> 1, u |-> TWO_PI_FIX - xr]

CosFix(xr) == CosFold(xr).s * CosQ(CosFold(xr).u)

\* The finite number t in units of 10^-4, for |t| < 10^5.
ToFix(t) ==
  IF t.e >= -4 THEN t.m * P10(t.e + 4)
  ELSE Sgn(t.m) * RoundShift(Abs(t.m), -4 - t.e, FALSE)

InTrigRange(t) == IsFiniteNum(t) /\ (IsZero(t) \/ Digits(Abs(t.m)) + t.e + 4 <= 9)

FromFix(c) == Norm(Sgn(c), Abs(c), -4, FALSE)

\* Math.cos
FCos(t) == IF ~InTrigRange(t) THEN NaN ELSE FromFix(CosFix(ToFix(t) % TWO_PI_FIX))

\* Math.sin
FSin(t) ==
  IF ~InTrigRange(t) THEN NaN ELSE FromFix(CosFix((ToFix(t) - HALF_PI_FIX) % TWO_PI_FIX))

\* Math.PI
PI == Fin(3142, -3)

(***************************************************************************)
(* Raw record values (row: Record<string, unknown>): what JSON.parse or a  *)
(* caller can put under a key.  A string is a sequence of characters.      *)
(***************************************************************************)
Undefined == [t |-> "undefined", v |-> 0]
JNull == [t |-> "null", v |-> 0]
JBool(b) == [t |-> "boolean", v |-> b]
JNum(n) == [t |-> "number", v |-> n]
JStr(s) == [t |-> "string", v |-> s]

IsDigit(c) == c \in {"0", "1", "2", "3", "4", "5", "6", "7", "8", "9"}
DigitVal(c) ==
  CASE c = "0" -> 0 [] c = "1" -> 1 [] c = "2" -> 2 [] c = "3" -> 3 [] c = "4" -> 4
    [] c = "5" -> 5 [] c = "6" -> 6 [] c = "7" -> 7 [] c = "8" -> 8 [] OTHER -> 9

Front(s) == SubSeq(s, 1, Len(s) - 1)

RECURSIVE TrimLeft(_)
TrimLeft(s) == IF s # <<>> /\ Head(s) = " " THEN TrimLeft(Tail(s)) ELSE s
RECURSIVE TrimRight(_)
TrimRight(s) == IF s # <<>> /\ s[Len(s)] = " " THEN TrimRight(Front(s)) ELSE s

\* The digits of s read as one integer, the decimal point skipped.
RECURSIVE DigitsValue(_)
DigitsValue(s) ==
  IF s = <<>> THEN 0
  ELSE IF s[Len(s)] = "." THEN DigitsValue(Front(s))
  ELSE DigitsValue(Front(s)) * 10 + DigitVal(s[Len(s)])

\* How many characters follow the decimal point (0 without one).
FractionLen(s) ==
  IF \E i \in 1..Len(s) : s[i] = "."
    THEN Len(s) - (CHOOSE i \in 1..Len(s) : s[i] = ".")
    ELSE 0

\* StringToNumber for decimal literals: [+-] digits [. digits]; the empty or
\* blank string is 0; anything else is NaN.  (Exponents, hex and "Infinity" are
\* not among the strings the model draws.)
StringToNumber(str) ==
  LET s == TrimRight(TrimLeft(str))
      signed == s # <<>> /\ Head(s) \in {"+", "-"}
      body == IF signed THEN Tail(s) ELSE s
      wellFormed == /\ \A i \in 1..Len(body) : IsDigit(body[i]) \/ body[i] = "."
                    /\ Cardinality({i \in 1..Len(body) : body[i] = "."}) <= 1
                    /\ \E i \in 1..Len(body) : IsDigit(body[i])
  IN IF s = <<>> THEN Zero
     ELSE IF ~wellFormed THEN NaN
     ELSE Norm(IF signed /\ Head(s) = "-" THEN -1 ELSE 1,
               DigitsValue(body), -FractionLen(body), FALSE)

\* Number(v)
ToNumber(v) ==
  CASE v.t = "undefined" -> NaN
    [] v.t = "null" -> Zero
    [] v.t = "boolean" -> (IF v.v THEN Dec(1, 0) ELSE Zero)
    [] v.t = "number" -> v.v
    [] OTHER -> StringToNumber(v.v)

\* v is truthy (the left operand of || is kept)
Truthy(v) ==
  CASE v.t = "undefined" -> FALSE
    [] v.t = "null" -> FALSE
    [] v.t = "boolean" -> v.v
    [] v.t = "number" -> ~IsNaN(v.v) /\ ~IsZero(v.v)
    [] OTHER -> v.v # <<>>

\* v == null (null or undefined)
Nullish(v) == v.t \in {"undefined", "null"}

LowerKeys ==
  {"pl_name", "hostname", "st_rad", "st_lum", "pl_orbsmax", "pl_orbeccen", "pl_rade",
   "pl_orbper"}

\* key.toUpperCase()
toUpperCase(key) ==
  CASE key = "pl_name" -> "PL_NAME" [] key = "hostname" -> "HOSTNAME"
    [] key = "st_rad" -> "ST_RAD" [] key = "st_lum" -> "ST_LUM"
    [] key = "pl_orbsmax" -> "PL_ORBSMAX" [] key = "pl_orbeccen" -> "PL_ORBECCEN"
    [] key = "pl_rade" -> "PL_RADE" [] key = "pl_orbper" -> "PL_ORBPER"
    [] OTHER -> key

AllKeys == LowerKeys \cup {toUpperCase(k) : k \in LowerKeys}

(***************************************************************************)
(* model.ts                                                                *)
(***************************************************************************)
\* row[key] ?? row[key.toUpperCase()] ?? null
get(r, key) ==
  IF ~Nullish(r[key]) THEN r[key]
  ELSE IF ~Nullish(r[toUpperCase(key)]) THEN r[toUpperCase(key)]
  ELSE JNull

num(r, key, fallback) ==
  LET v == get(r, key)
  IN IF ~Nullish(v) /\ IsFiniteNum(ToNumber(v)) THEN ToNumber(v) ELSE fallback

HZ_INNER == Fin(7500, -4)
HZ_OUTER == Fin(1770, -3)

\* Faulty variant: the outer bound scaled by the inner factor.
habitableZoneSameFactor(stLum) ==
  IF ~IsFiniteNum(stLum) THEN [inner |-> HZ_INNER, outer |-> HZ_INNER]
  ELSE LET L == Pow10(stLum)
       IN [inner |-> FMul(HZ_INNER, FSqrt(L)), outer |-> FMul(HZ_INNER, FSqrt(L))]

habitableZoneAU(stLum) ==
  IF ~IsFiniteNum(stLum) THEN [inner |-> HZ_INNER, outer |-> HZ_OUTER]
  ELSE LET L == Pow10(stLum)
       IN [inner |-> FMul(HZ_INNER, FSqrt(L)), outer |-> FMul(HZ_OUTER, FSqrt(L))]

\* Number literals of the source, as significand and exponent.
SUN_RADIUS_AU == Fin(5000, -6)
MIN_STAR_RADIUS == Fin(1200, -5)
MIN_PLANET_RADIUS == Fin(8000, -6)
PLANET_RADIUS_SCALE == Fin(4000, -8)
MAX_ECCENTRICITY == Fin(9900, -4)
DEFAULT_PERIOD_DAYS == Fin(3650, -1)
DAYS_PER_YEAR == Fin(3652, -1)
One == Fin(1000, -3)
Two == Fin(2000, -3)

radiusAtAngle(orbitRadius, ecc, t) ==
  FDiv(FMul(orbitRadius, FSub(One, FMul(ecc, ecc))),
       FAdd(One, FMul(ecc, FCos(t))))

positionAtTime(orbitRadius, ecc, t) ==
  LET r == radiusAtAngle(orbitRadius, ecc, t)
  IN [x |-> FMul(r, FCos(t)), y |-> Zero, z |-> FMul(r, FSin(t))]

ORBIT_SEGMENTS == 64

\* the phase of the i-th cached orbit point, i = 0..64
orbitPointPhase(i) == FMul(FMul(FDiv(Dec(i, 0), Dec(ORBIT_SEGMENTS, 0)), PI), Two)

\* Faulty variant: the period taken as read, without the > 0 test.
orbitalPeriodUnchecked(plOrbper) == plOrbper

\* plOrbper > 0 ? plOrbper : 365
orbitalPeriodOf(plOrbper) == IF FGt(plOrbper, Zero) THEN plOrbper ELSE DEFAULT_PERIOD_DAYS

clampEccentricity(plOrbeccen) == FMin(MAX_ECCENTRICITY, plOrbeccen)

\* Faulty variant: the zone taken as an open interval.
inHabitableZoneStrict(plOrbsmax, hzAu) ==
  FGt(plOrbsmax, hzAu.inner) /\ FLt(plOrbsmax, hzAu.outer)

\* const inHz = plOrbsmax >= hzAu.inner && plOrbsmax <= hzAu.outer
inHabitableZoneOf(plOrbsmax, hzAu) ==
  FGe(plOrbsmax, hzAu.inner) /\ FLe(plOrbsmax, hzAu.outer)

\* inHz ? "in" : plOrbsmax < hzAu.inner ? "too-close" : "too-far"
habitableZoneStatusOf(inHz, plOrbsmax, hzAu) ==
  IF inHz THEN "in" ELSE IF FLt(plOrbsmax, hzAu.inner) THEN "too-close" ELSE "too-far"

createSimulationFromRow(r) ==
  LET plName == IF Truthy(get(r, "pl_name")) THEN get(r, "pl_name")
                ELSE JStr(<<"P", "l", "a", "n", "e", "t">>)
      hostName == IF Truthy(get(r, "hostname")) THEN get(r, "hostname")
                  ELSE JStr(<<"S", "t", "a", "r">>)
      stRad == num(r, "st_rad", One)
      stLum == num(r, "st_lum", Zero)
      plOrbsmax == num(r, "pl_orbsmax", One)
      plOrbeccenRaw == get(r, "pl_orbeccen")
      eccentricityKnown == ~Nullish(plOrbeccenRaw) /\ IsFiniteNum(ToNumber(plOrbeccenRaw))
      plOrbeccen == num(r, "pl_orbeccen", Zero)
      plRade == num(r, "pl_rade", One)
      plOrbper == num(r, "pl_orbper", DEFAULT_PERIOD_DAYS)
      hzAu == habitableZoneAU(stLum)
      inHz == inHabitableZoneOf(plOrbsmax, hzAu)
      orbitEccentricity == clampEccentricity(plOrbeccen)
  IN [plName |-> plName,
      hostName |-> hostName,
      orbitAu |-> plOrbsmax,
      planetRadiusRe |-> plRade,
      hzInnerAu |-> hzAu.inner,
      hzOuterAu |-> hzAu.outer,
      inHabitableZone |-> inHz,
      habitableZoneStatus |-> habitableZoneStatusOf(inHz, plOrbsmax, hzAu),
      orbitalPeriodDays |-> orbitalPeriodOf(plOrbper),
      starRadius |-> FMax(MIN_STAR_RADIUS, FMul(stRad, SUN_RADIUS_AU)),
      orbitRadius |-> plOrbsmax,
      planetRadius |-> FMax(MIN_PLANET_RADIUS, FMul(plRade, PLANET_RADIUS_SCALE)),
      hzInner |-> hzAu.inner,
      hzOuter |-> hzAu.outer,
      orbitEccentricity |-> orbitEccentricity,
      eccentricityKnown |-> eccentricityKnown,
      orbitPointsCache |->
        [i \in 1..(ORBIT_SEGMENTS + 1) |->
           positionAtTime(plOrbsmax, orbitEccentricity, orbitPointPhase(i - 1))],
      time |-> Zero]

getOrbitPoints(s) == s.orbitPointsCache
\* Faulty variants of update: the phase overwritten, the phase moved backwards,
\* the orbit points recomputed from the new phase.
updateAssign(s, deltaTime) == [s EXCEPT !.time = deltaTime]
updateBackwards(s, deltaTime) == [s EXCEPT !.time = FSub(s.time, deltaTime)]
updateRecomputing(s, deltaTime) ==
  [s EXCEPT !.time = FAdd(s.time, deltaTime),
            !.orbitPointsCache =
              [i \in 1..(ORBIT_SEGMENTS + 1) |->
                 positionAtTime(s.orbitRadius, s.orbitEccentricity,
                                FAdd(s.time, orbitPointPhase(i - 1)))]]

\* time += deltaTime
update(s, deltaTime) == [s EXCEPT !.time = FAdd(s.time, deltaTime)]
getPlanetPosition(s) == positionAtTime(s.orbitRadius, s.orbitEccentricity, s.time)
getElapsedDays(s) == FMul(FDiv(s.time, FMul(Two, PI)), s.orbitalPeriodDays)
getElapsedYears(s) == FDiv(getElapsedDays(s), DAYS_PER_YEAR)

(***************************************************************************)
(* scene.ts                                                                *)
(***************************************************************************)
DT == Fin(5000, -6)

(***************************************************************************)
(* Inputs.  The records vary one field of a baseline record at a time, in  *)
(* both spellings of its key, and the luminosity together with the orbit.  *)
(***************************************************************************)
S_NA == <<"N", "/", "A">>
S_HALF == <<"0", ".", "5">>
S_THREE == <<"3">>

Baseline ==
  [k \in AllKeys |->
     CASE k = "pl_name" -> JStr(<<"X">>)
       [] k = "hostname" -> JStr(<<"Y">>)
       [] k = "st_rad" -> JNum(One)
       [] k = "st_lum" -> JNum(Zero)
       [] k = "pl_orbsmax" -> JNum(One)
       [] k = "pl_orbeccen" -> JNum(Zero)
       [] k = "pl_rade" -> JNum(One)
       [] k = "pl_orbper" -> JNum(Dec(365, 0))
       [] OTHER -> Undefined]

CommonVals ==
  {Undefined, JNull, JStr(S_NA), JStr(<<>>), JStr(<<" ">>), JStr(S_HALF), JBool(TRUE),
   JNum(NaN), JNum(Inf(1))}

UpperVals == {Undefined, JNum(Two), JStr(S_NA), JStr(S_THREE)}

Luminosities ==
  {Dec(-400, 0), Dec(-324, 0), Dec(-323, 0), Dec(-2, 0), Dec(0, 0), Dec(5, -1), Dec(2, 0),
   Dec(308, 0), Dec(309, 0), Dec(400, 0)}

SemiMajorAxes ==
  {Dec(-1, 0), Dec(0, 0), Dec(5, -1), Dec(75, -2), Dec(1, 0), Dec(177, -2), Dec(3, 0)}

NumbersOf(f) ==
  CASE f = "st_rad" -> {Dec(-1, 0), Dec(0, 0), Dec(1, 0), Dec(24, -1), Dec(10, 0)}
    [] f = "st_lum" -> Luminosities
    [] f = "pl_orbsmax" -> SemiMajorAxes
    [] f = "pl_orbeccen" ->
         {Dec(-1, 0), Dec(-5, -1), Dec(0, 0), Dec(5, -1), Dec(99, -2), Dec(15, -1)}
    [] f = "pl_rade" -> {Dec(-1, 0), Dec(0, 0), Dec(1, 0), Dec(200, 0), Dec(300, 0)}
    [] OTHER -> {Dec(-5, 0), Dec(0, 0), Dec(100, 0), Dec(365, 0), Dec(730, 0)}

NumericKeys == LowerKeys \ {"pl_name", "hostname"}

FieldRows(f) ==
  {[Baseline EXCEPT ![f] = lo, ![toUpperCase(f)] = up] :
     lo \in CommonVals \cup {JNum(n) : n \in NumbersOf(f)}, up \in UpperVals}

NameRows ==
  {[Baseline EXCEPT ![f] = lo, ![toUpperCase(f)] = up] :
     f \in {"pl_name", "hostname"},
     lo \in {Undefined, JNull, JStr(<<>>), JStr(<<"X">>), JNum(Zero)},
     up \in {Undefined, JStr(<<"K">>)}}

ZoneRows ==
  {[Baseline EXCEPT !["st_lum"] = JNum(l), !["pl_orbsmax"] = JNum(a)] :
     l \in Luminosities, a \in SemiMajorAxes}

AllRows == UNION {FieldRows(f) : f \in NumericKeys} \cup NameRows \cup ZoneRows

\* The records of the specifications that advance time.
TimeRows ==
  {Baseline,
   [Baseline EXCEPT !["pl_orbeccen"] = JNum(Dec(5, -1)), !["pl_orbper"] = JNum(Dec(100, 0))],
   [Baseline EXCEPT !["pl_orbeccen"] = Undefined, !["pl_orbsmax"] = JNum(Dec(3, 0)),
                    !["pl_orbper"] = JNum(Dec(-5, 0)), !["st_lum"] = JNum(Dec(2, 0))]}

SceneRows ==
  {[Baseline EXCEPT !["pl_orbper"] = lo, !["PL_ORBPER"] = up] :
     lo \in {Undefined, JStr(S_NA), JNum(Dec(-5, 0)), JNum(Dec(365, 0))},
     up \in {Undefined, JNum(Two)}} \cup
  {[Baseline EXCEPT !["pl_orbper"] = JNum(Dec(100, 0)), !["pl_orbeccen"] = JNum(Dec(5, -1))]}

\* The dt arguments update is called with.
Deltas == {FNeg(DT), Zero, DT, Dec(10, 0)}

\* The num(row, key, fallback) calls of createSimulationFromRow.
NumCalls ==
  {<<"st_rad", One>>, <<"st_lum", Zero>>, <<"pl_orbsmax", One>>, <<"pl_orbeccen", Zero>>,
   <<"pl_rade", One>>, <<"pl_orbper", DEFAULT_PERIOD_DAYS>>}

Handles == {1, 2}
MaxUpdates == 2
MaxFrames == 1260

(***************************************************************************)
(* State.                                                                  *)
(*   row       the raw record (page.ts: JSON.parse(stored))                *)
(*   sims      the SimulationState objects built from row so far, by handle*)
(*   calls     how many times update was called, on any handle             *)
(*   lastCall  the last call made on a handle, its argument and result     *)
(*   scene     the render loop of runScene                                 *)
(***************************************************************************)
VARIABLES row, sims, calls, lastCall, scene
vars == <<row, sims, calls, lastCall, scene>>

Call(op, h, arg, ret) == [op |-> op, h |-> h, arg |-> arg, ret |-> ret]
Origin == [x |-> Zero, y |-> Zero, z |-> Zero]

InitWith(rows) ==
  /\ row \in rows
  /\ sims = <<>>
  /\ calls = 0
  /\ lastCall = Call("none", 0, Zero, Zero)
  /\ scene = [running |-> FALSE, frames |-> 0, planet |-> Origin,
              timer |-> [period |-> Zero, days |-> Zero, years |-> Zero]]

\* num(row, key, fallback), a step of createSimulationFromRow
Num(key, fallback) ==
  /\ lastCall' = Call("num", 0, [key |-> key, fallback |-> fallback], num(row, key, fallback))
  /\ UNCHANGED <<row, sims, calls, scene>>

\* const state = createSimulationFromRow(row)
Create(h) ==
  /\ h \notin DOMAIN sims
  /\ sims' = (h :> createSimulationFromRow(row)) @@ sims
  /\ lastCall' = Call("createSimulationFromRow", h, Zero, Zero)
  /\ UNCHANGED <<row, calls, scene>>

\* Faulty variant: one time cursor shared by every state.
UpdateShared(h, dt) ==
  /\ h \in DOMAIN sims
  /\ calls < MaxUpdates
  /\ sims' = [g \in DOMAIN sims |-> update(sims[g], dt)]
  /\ calls' = calls + 1
  /\ lastCall' = Call("update", h, dt, Zero)
  /\ UNCHANGED <<row, scene>>

\* state.update(deltaTime)
Update(h, dt) ==
  /\ h \in DOMAIN sims
  /\ calls < MaxUpdates
  /\ sims' = [sims EXCEPT ![h] = update(@, dt)]
  /\ calls' = calls + 1
  /\ lastCall' = Call("update", h, dt, Zero)
  /\ UNCHANGED <<row, scene>>

GetPlanetPosition(h) ==
  /\ h \in DOMAIN sims
  /\ lastCall' = Call("getPlanetPosition", h, Zero, getPlanetPosition(sims[h]))
  /\ UNCHANGED <<row, sims, calls, scene>>

GetElapsedDays(h) ==
  /\ h \in DOMAIN sims
  /\ lastCall' = Call("getElapsedDays", h, Zero, getElapsedDays(sims[h]))
  /\ UNCHANGED <<row, sims, calls, scene>>

GetElapsedYears(h) ==
  /\ h \in DOMAIN sims
  /\ lastCall' = Call("getElapsedYears", h, Zero, getElapsedYears(sims[h]))
  /\ UNCHANGED <<row, sims, calls, scene>>

GetOrbitPoints(h) ==
  /\ h \in DOMAIN sims
  /\ lastCall' = Call("getOrbitPoints", h, Zero, getOrbitPoints(sims[h]))
  /\ UNCHANGED <<row, sims, calls, scene>>

\* One frame of animate(): update, move the planet, then onFrame, whose timer
\* reads the period, the elapsed days and the elapsed years (kept here as the
\* numbers read, before toFixed formats them).
animate(s, sc) ==
  LET s1 == update(s, DT)
  IN [sim |-> s1,
      scene |-> [running |-> TRUE,
                 frames |-> sc.frames + 1,
                 planet |-> getPlanetPosition(s1),
                 timer |-> [period |-> s1.orbitalPeriodDays,
                            days |-> getElapsedDays(s1),
                            years |-> getElapsedYears(s1)]]]

\* runScene(canvas, state, {onFrame}): sets the scene up and runs the first frame.
RunScene ==
  /\ 1 \in DOMAIN sims
  /\ ~scene.running
  /\ LET f == animate(sims[1], scene)
     IN /\ sims' = [sims EXCEPT ![1] = f.sim]
        /\ scene' = f.scene
        /\ lastCall' = Call("getElapsedYears", 1, Zero, f.scene.timer.years)
  /\ UNCHANGED <<row, calls>>

\* requestAnimationFrame(animate)
Animate ==
  /\ scene.running
  /\ scene.frames < MaxFrames
  /\ LET f == animate(sims[1], scene)
     IN /\ sims' = [sims EXCEPT ![1] = f.sim]
        /\ scene' = f.scene
        /\ lastCall' = Call("getElapsedYears", 1, Zero, f.scene.timer.years)
  /\ UNCHANGED <<row, calls>>

\* The SimulationState interface, driven by any caller.
Init == InitWith(TimeRows)
Next ==
  \/ \E h \in Handles : Create(h)
  \/ \E h \in Handles, dt \in Deltas : Update(h, dt)
  \/ \E h \in Handles : GetPlanetPosition(h)
  \/ \E h \in Handles : GetElapsedDays(h)
  \/ \E h \in Handles : GetElapsedYears(h)
  \/ \E h \in Handles : GetOrbitPoints(h)
Spec == Init /\ [][Next]_vars

\* Construction alone, over every input record.
InitBuild == InitWith(AllRows)
NextBuild ==
  \/ \E c \in NumCalls : Num(c[1], c[2])
  \/ Create(1)
SpecBuild == InitBuild /\ [][NextBuild]_vars

\* The page: one state, driven by runScene's animation frames.
InitScene == InitWith(SceneRows)
NextScene == Create(1) \/ RunScene \/ Animate
SpecScene == InitScene /\ [][NextScene]_vars

(***************************************************************************)
(* Properties of construction, checked under SpecBuild.                    *)
(***************************************************************************)
Built == 1 \in DOMAIN sims

\* C1: every built state has 0 <= orbitEccentricity <= 0.99.
C1_EccentricityInRange ==
  \A h \in DOMAIN sims :
    FGe(sims[h].orbitEccentricity, Zero) /\ FLe(sims[h].orbitEccentricity, MAX_ECCENTRICITY)

\* C2: habitableZoneStatus is "in" on the closed interval [hzInnerAu, hzOuterAu],
\* "too-close" below it and "too-far" otherwise; inHabitableZone holds exactly
\* when the status is "in".
C2_ZoneStatus ==
  \A h \in DOMAIN sims :
    /\ sims[h].habitableZoneStatus =
         (IF FLe(sims[h].hzInnerAu, sims[h].orbitAu) /\ FLe(sims[h].orbitAu, sims[h].hzOuterAu)
            THEN "in"
          ELSE IF FLt(sims[h].orbitAu, sims[h].hzInnerAu) THEN "too-close"
          ELSE "too-far")
    /\ sims[h].inHabitableZone <=> (sims[h].habitableZoneStatus = "in")

\* A state whose orbit lies exactly on the outer bound of a zone that is not a
\* single point.
C2_OnBoundary ==
  /\ Built
  /\ sims[1].orbitAu = sims[1].hzOuterAu
  /\ sims[1].hzInnerAu # sims[1].hzOuterAu
  /\ sims[1].habitableZoneStatus = "in"

\* C3 as stated: hzInnerAu < hzOuterAu in every built state.
C3_BoundsStrictlyOrdered ==
  \A h \in DOMAIN sims : FLt(sims[h].hzInnerAu, sims[h].hzOuterAu)

\* The luminosity 10^st_lum of the record, st_lum defaulting to 0.
RowLuminosity == Pow10(num(row, "st_lum", Zero))

\* C3 amended: hzInnerAu < hzOuterAu whenever 10^st_lum is a positive finite
\* number; when it underflows to 0 or overflows to Infinity the two bounds are
\* equal (both 0, or both Infinity).
C3_BoundsOrderedUnlessDegenerate ==
  \A h \in DOMAIN sims :
    IF IsFiniteNum(RowLuminosity) /\ ~IsZero(RowLuminosity)
      THEN FLt(sims[h].hzInnerAu, sims[h].hzOuterAu)
      ELSE /\ sims[h].hzInnerAu = sims[h].hzOuterAu
           /\ sims[h].hzInnerAu \in {Zero, Inf(1)}

\* A state built from a record whose luminosity is 100 times the Sun's.
C3_BrightStar ==
  /\ Built
  /\ get(row, "st_lum") = JNum(Two)
  /\ sims[1].hzInnerAu = Fin(7500, -3)
  /\ sims[1].hzOuterAu = Fin(1770, -2)

\* A variant of a field counts as absent when it is null, undefined or not
\* finite after numeric coercion.
Usable(v) == ~Nullish(v) /\ IsFiniteNum(ToNumber(v))

\* C4: num returns the coercion of the first usable variant of the key,
\* verbatim then upper-case, and the fallback only when neither is usable.
C4_FirstUsableVariant ==
  lastCall.op = "num" =>
    lastCall.ret =
      (IF Usable(row[lastCall.arg.key]) THEN ToNumber(row[lastCall.arg.key])
       ELSE IF Usable(row[toUpperCase(lastCall.arg.key)])
         THEN ToNumber(row[toUpperCase(lastCall.arg.key)])
       ELSE lastCall.arg.fallback)

\* C5: starRadius, planetRadius and orbitRadius of every built state are > 0.
C5_DistancesPositive ==
  \A h \in DOMAIN sims :
    /\ FGt(sims[h].starRadius, Zero)
    /\ FGt(sims[h].planetRadius, Zero)
    /\ FGt(sims[h].orbitRadius, Zero)

(***************************************************************************)
(* Properties of the SimulationState interface, checked under Spec.        *)
(***************************************************************************)
\* update(dt1) then update(dt2) on s gives the state of update(dt1 + dt2) on s.
Additive(s) ==
  \A dt1 \in Deltas, dt2 \in Deltas :
    update(update(s, dt1), dt2) = update(s, FAdd(dt1, dt2))

\* C6 as stated: update is additive from any reachable state.
C6_AdditiveEverywhere == \A h \in DOMAIN sims : Additive(sims[h])

\* C6 amended: update is additive from a state whose phase is 0, as a freshly
\* built one; from other phases the two sums may round differently.
C6_AdditiveFromPhaseZero ==
  \A h \in DOMAIN sims : sims[h].time = Zero => Additive(sims[h])

\* Two calls update(0.005) have brought a fresh state to the phase of update(0.01).
C6_TwoSteps ==
  /\ Built
  /\ calls = 2
  /\ lastCall.op = "update"
  /\ sims[1].time = FAdd(DT, DT)
  /\ sims[1].time = update(createSimulationFromRow(row), FAdd(DT, DT)).time

\* The fields of a state other than its phase.
derivedFields(s) == [s EXCEPT !.time = Zero]

\* C7: two states built from the same record agree on every derived field and
\* on their orbit points, and update on one leaves the other as it was: its
\* phase, position, elapsed days and orbit points.
C7_IndependentBuilds ==
  [][\A h \in DOMAIN sims', g \in DOMAIN sims' :
       /\ derivedFields(sims'[h]) = derivedFields(sims'[g])
       /\ getOrbitPoints(sims'[h]) = getOrbitPoints(sims'[g])
       /\ (lastCall'.op = "update" /\ lastCall'.h = h /\ g # h /\ g \in DOMAIN sims) =>
            /\ sims'[g].time = sims[g].time
            /\ getPlanetPosition(sims'[g]) = getPlanetPosition(sims[g])
            /\ getElapsedDays(sims'[g]) = getElapsedDays(sims[g])
            /\ getOrbitPoints(sims'[g]) = getOrbitPoints(sims[g])]_vars

\* Both states are built and update has moved one of them away from the other.
C7_Diverged ==
  /\ DOMAIN sims = Handles
  /\ lastCall.op = "update"
  /\ sims[1].time # sims[2].time

\* C8 as stated: the phase is non-negative in every reachable state.
C8_PhaseNonNegative == \A h \in DOMAIN sims : FGe(sims[h].time, Zero)

\* C8 amended: the phase is 0 at construction, changes only by update, which
\* adds dt to it without reducing it modulo 2 pi; update(dt) with dt >= 0 never
\* lowers the phase or the elapsed days and keeps a non-negative phase and
\* non-negative elapsed days non-negative.  (update(dt) with dt < 0 lowers the
\* phase and can make it negative.)
C8_PhaseMonotone ==
  [][\A h \in DOMAIN sims' :
       IF h \notin DOMAIN sims THEN sims'[h].time = Zero
       ELSE IF lastCall'.op = "update" /\ lastCall'.h = h
         THEN /\ sims'[h].time = FAdd(sims[h].time, lastCall'.arg)
              /\ FGe(lastCall'.arg, Zero) =>
                   /\ FGe(sims'[h].time, sims[h].time)
                   /\ FGe(getElapsedDays(sims'[h]), getElapsedDays(sims[h]))
                   /\ FGe(sims[h].time, Zero) =>
                        /\ FGe(sims'[h].time, Zero)
                        /\ FGe(getElapsedDays(sims'[h]), Zero)
       ELSE sims'[h].time = sims[h].time]_vars

\* update has carried a phase beyond 2 pi.
C8_BeyondOneOrbit ==
  /\ lastCall.op = "update"
  /\ FGt(lastCall.arg, Zero)
  /\ FGt(sims[lastCall.h].time, FMul(Two, PI))

\* The orbit points of s computed anew: phases 0, 2 pi / 64, ..., 2 pi.
OrbitPointsOf(s) ==
  [i \in 1..65 |-> positionAtTime(s.orbitRadius, s.orbitEccentricity, orbitPointPhase(i - 1))]

\* C10: no call changes a derived field of a built state, and getOrbitPoints
\* returns the 65 points computed at construction whatever the phase.
C10_OnlyPhaseChanges ==
  [][/\ \A h \in DOMAIN sims :
          h \in DOMAIN sims' /\ derivedFields(sims'[h]) = derivedFields(sims[h])
     /\ lastCall'.op = "getOrbitPoints" =>
          /\ Len(lastCall'.ret) = 65
          /\ lastCall'.ret = OrbitPointsOf(sims[lastCall'.h])]_vars

\* getOrbitPoints was called on a state that update has moved.
C10_PointsAfterUpdate ==
  /\ lastCall.op = "getOrbitPoints"
  /\ calls > 0
  /\ sims[lastCall.h].time # Zero

(***************************************************************************)
(* Properties of the render loop, checked under SpecScene.                 *)
(***************************************************************************)
\* The period the record gives: its pl_orbper when present, finite and > 0.
RowPeriod ==
  IF Usable(get(row, "pl_orbper")) /\ FGt(ToNumber(get(row, "pl_orbper")), Zero)
    THEN ToNumber(get(row, "pl_orbper"))
    ELSE Fin(3650, -1)

\* |a - b|
Distance(a, b) == IF FLt(a, b) THEN FSub(b, a) ELSE FSub(a, b)

====
